---- MODULE Spec2Model ----
(***************************************************************************)
(* failchain: error containers (UnboxedError / BoxedError), the ResultExt   *)
(* combinators chain_err / chain_inspect_err and the bail! / ensure!        *)
(* macros (src/src/lib.rs), instantiated with the ErrorKind enum of         *)
(* src/examples/main.rs.                                                    *)
(*                                                                          *)
(* Failure values live in a store `fails` (index = identity of the value);  *)
(* moving a failure into a Context stores its index.  BoxedError keeps its  *)
(* Context in a second store `boxes` (the Box allocation).  The same        *)
(* program is run in two worlds: `u`, where ErrorKind::Error is             *)
(* UnboxedError, and `b`, where it is BoxedError.                           *)
(*                                                                          *)
(* Strings are sequences of tokens; "{", "}", ":", "?" are tokens of their  *)
(* own so that format! can be modelled by what it does.                     *)
(***************************************************************************)
EXTENDS Naturals, Sequences, FiniteSets, TLC

\* u, b     the failures constructed so far, the Box allocations and the
\*          Result in hand, with UnboxedError (u) and with BoxedError (b);
\*          calls / evals count callback invocations and $cond evaluations
\* pc       position in the function: "start", "past_ensure", "continued",
\*          "have" (a Result in hand), "returned" (left through bail!)
\* last     the last call: its arguments and u, b as they were before it
\* orig     the failure the chain in hand started from
\* applied  the kinds chained onto it, in order of application
\* shown    the texts produced by displaying the Error in hand
VARIABLES u, b, pc, last, orig, applied, shown
vars == <<u, b, pc, last, orig, applied, shown>>

\* ---------------------------------------------------------------- bounds
MaxChain == 3
MaxDisplays == 2

\* ---------------------------------------------------------------- inputs
\* Option::None of `cause()`: no failure has index 0.
None == 0

Paths == { <<"/tmp/missing.meta">> }
Values == { "v1", "v2" }
\* Messages of the raw (std) failures a fallible operation produces.
RawMsgs == { <<"file not found">>, <<"permission denied">> }

\* format strings: plain text, text with {{ }} escapes, {} and {:?}
FmtPlain   == <<"validation isn't actually implemented">>
FmtEscaped == <<"{", "{", "bad", "}", "}">>
FmtDisplay == <<"the file at ", "{", "}", " is corrupt">>
FmtDebug   == <<"metadata file ", "{", ":", "?", "}", " is too long">>

\* ------------------------------------------------------- formatting (std)
\* Debug of a str / Path without characters that need escaping: quoted.
Debug(s) == <<"\"">> \o s \o <<"\"">>

RECURSIVE format(_, _)
format(fmt, args) ==
    IF fmt = <<>> THEN <<>>
    ELSE IF Len(fmt) >= 2 /\ fmt[1] = "{" /\ fmt[2] = "{"
        THEN <<"{">> \o format(SubSeq(fmt, 3, Len(fmt)), args)
    ELSE IF Len(fmt) >= 2 /\ fmt[1] = "}" /\ fmt[2] = "}"
        THEN <<"}">> \o format(SubSeq(fmt, 3, Len(fmt)), args)
    ELSE IF Len(fmt) >= 2 /\ fmt[1] = "{" /\ fmt[2] = "}"
        THEN Head(args) \o format(SubSeq(fmt, 3, Len(fmt)), Tail(args))
    ELSE IF Len(fmt) >= 4 /\ fmt[1] = "{" /\ fmt[2] = ":" /\ fmt[3] = "?" /\ fmt[4] = "}"
        THEN Debug(Head(args)) \o format(SubSeq(fmt, 5, Len(fmt)), Tail(args))
    ELSE <<fmt[1]>> \o format(Tail(fmt), args)

to_owned(s) == s

\* ------------------------------------------------------------ ErrorKind
ErrorKind(tag, payload) == [tag |-> tag, payload |-> payload]

\* #[fail(display = "...", 0)] of each variant
ErrorKind_display(tag) ==
    CASE tag = "MetadataIo"      -> <<"Metadata I/O error ", "{", ":", "?", "}", ".">>
      [] tag = "CorruptMetadata" -> <<"Corrupt metadata file: ", "{", "}">>
      [] tag = "WadIo"           -> <<"WAD I/O error ", "{", ":", "?", "}", ".">>
      [] tag = "CorruptWad"      -> <<"Corrupt WAD file: ", "{", "}">>

ErrorKind_fmt(kind) == format(ErrorKind_display(kind.tag), <<kind.payload>>)

\* the variants that are FnOnce(String) -> ErrorKind
StringCtors == { "CorruptMetadata", "CorruptWad" }

\* kinds handed to chain_err / chain_inspect_err / From
ChainKinds ==
    { ErrorKind("WadIo", p) : p \in Paths } \cup
    { ErrorKind("MetadataIo", p) : p \in Paths } \cup
    { ErrorKind("CorruptWad", <<"bad header">>) }

\* ---------------------------------------------------- failure::Context
Context_new_stale(kind) == [context |-> ErrorKind("CorruptWad", <<>>), failure |-> None]
Context_new(kind) == [context |-> kind, failure |-> None]

Fail_context_selfCause(self, kind) == [context |-> kind, failure |-> self + 1]
Fail_context_dropCause(self, kind) == [context |-> kind, failure |-> None]
\* Fail::context(self, kind): `self` is moved into the new Context
Fail_context(self, kind) == [context |-> kind, failure |-> self]

Context_get_context(inner) == inner.context
Context_cause(inner) == inner.failure

Context_fmt(inner) == ErrorKind_fmt(inner.context)

\* --------------------------------------------------------------- worlds
World0 == [fails |-> <<>>, boxes |-> <<>>, res |-> [ok |-> TRUE, val |-> "none", err |-> None],
           calls |-> 0, evals |-> 0]

Ok(v) == [ok |-> TRUE, val |-> v, err |-> None]
Err(e) == [ok |-> FALSE, val |-> "none", err |-> e]

\* a raw failure of the platform (std::io::Error): its Fail::cause is None
Raw(w, msg) ==
    [w |-> [w EXCEPT !.fails = Append(@, [type |-> "raw", msg |-> msg])],
     id |-> Len(w.fails) + 1]

\* ---------------------------------------------------------- UnboxedError
UnboxedError_from_context(w, inner) ==
    [w |-> [w EXCEPT !.fails = Append(@, [type |-> "unboxed", inner |-> inner])],
     id |-> Len(w.fails) + 1]

UnboxedError_from_kind(w, kind) == UnboxedError_from_context(w, Context_new(kind))

UnboxedError_kind(w, id) == Context_get_context(w.fails[id].inner)

UnboxedError_cause_skip(w, id) ==
    LET c == Context_cause(w.fails[id].inner)
    IN IF c # None /\ w.fails[c].type = "unboxed" THEN Context_cause(w.fails[c].inner) ELSE c
UnboxedError_cause(w, id) == Context_cause(w.fails[id].inner)

UnboxedError_fmt_chain(w, id) ==
    IF Context_cause(w.fails[id].inner) = None
    THEN Context_fmt(w.fails[id].inner)
    ELSE Context_fmt(w.fails[id].inner) \o <<": caused by an earlier failure">>
UnboxedError_fmt(w, id) == Context_fmt(w.fails[id].inner)

\* ------------------------------------------------------------ BoxedError
BoxedError_from_context(w, inner) ==
    [w |-> [w EXCEPT !.boxes = Append(@, inner),
                     !.fails = Append(@, [type |-> "boxed", inner |-> Len(w.boxes) + 1])],
     id |-> Len(w.fails) + 1]

BoxedError_from_kind(w, kind) == BoxedError_from_context(w, Context_new(kind))

BoxedError_kind_inner(w, id) ==
    LET c == Context_cause(w.boxes[w.fails[id].inner])
    IN IF c # None /\ w.fails[c].type = "boxed"
       THEN Context_get_context(w.boxes[w.fails[c].inner])
       ELSE Context_get_context(w.boxes[w.fails[id].inner])
BoxedError_kind(w, id) == Context_get_context(w.boxes[w.fails[id].inner])

BoxedError_cause(w, id) == Context_cause(w.boxes[w.fails[id].inner])

BoxedError_fmt(w, id) == Context_fmt(w.boxes[w.fails[id].inner])

\* ------------------------------------------- dispatch on the failure type
\* ErrorKindT::Error: From<Context<ErrorKindT>>
Error_from_context(w, form, inner) ==
    IF form = "unboxed" THEN UnboxedError_from_context(w, inner)
    ELSE BoxedError_from_context(w, inner)

Error_from_kind(w, form, kind) ==
    IF form = "unboxed" THEN UnboxedError_from_kind(w, kind)
    ELSE BoxedError_from_kind(w, kind)

Error_kind(w, id) ==
    IF w.fails[id].type = "unboxed" THEN UnboxedError_kind(w, id) ELSE BoxedError_kind(w, id)

\* <dyn Fail>::cause
Fail_cause(w, id) ==
    CASE w.fails[id].type = "raw"     -> None
      [] w.fails[id].type = "unboxed" -> UnboxedError_cause(w, id)
      [] w.fails[id].type = "boxed"   -> BoxedError_cause(w, id)

\* Display of any failure
Fail_fmt(w, id) ==
    CASE w.fails[id].type = "raw"     -> w.fails[id].msg
      [] w.fails[id].type = "unboxed" -> UnboxedError_fmt(w, id)
      [] w.fails[id].type = "boxed"   -> BoxedError_fmt(w, id)

\* ------------------------------------------------------------ ResultExt
\* the methods of trait ResultExt
ResultExt == { "chain_err", "chain_inspect_err" }

\* Callbacks: `kind` is the ErrorKind the callback returns.  A callback of
\* chain_inspect_err holds `&mut` to the failure and may overwrite it
\* (touch); a raw failure is overwritten with a failure of message `msg`.
\* The fields of UnboxedError / BoxedError are private, so a callback
\* handed one of those only reads it.
Callbacks ==
    { [kind |-> k, touch |-> FALSE, msg |-> <<>>] : k \in ChainKinds } \cup
    { [kind |-> k, touch |-> TRUE, msg |-> <<"redacted">>] : k \in ChainKinds }

\* chain(&mut initial_error): one invocation of the FnOnce
Invoke(w, chain, e) ==
    [w EXCEPT !.calls = @ + 1,
              !.fails = IF chain.touch /\ w.fails[e].type = "raw"
                        THEN [@ EXCEPT ![e].msg = chain.msg]
                        ELSE @]

chain_inspect_err_eager(w, form, chain) ==
    IF w.res.ok THEN [w EXCEPT !.calls = @ + 1]
    ELSE LET e == w.res.err
             w1 == Invoke(w, chain, e)
             r == Error_from_context(w1, form, Fail_context(e, chain.kind))
         IN [r.w EXCEPT !.res = Err(r.id)]
\* self.map_err(|mut initial_error| { let kind = chain(&mut initial_error);
\*                                    initial_error.context(kind).into() })
chain_inspect_err(w, form, chain) ==
    IF w.res.ok THEN w
    ELSE LET e == w.res.err
             w1 == Invoke(w, chain, e)
             r == Error_from_context(w1, form, Fail_context(e, chain.kind))
         IN [r.w EXCEPT !.res = Err(r.id)]

chain_err_noop(w, form, map) == w
\* self.chain_inspect_err(|_| map())
chain_err(w, form, map) ==
    chain_inspect_err(w, form, [kind |-> map.kind, touch |-> FALSE, msg |-> <<>>])

\* ------------------------------------------------------- bail! / ensure!
\* the argument lists the macro arms accept
MacroArgs ==
    { [arm |-> "kind",
       kind |-> ErrorKind("CorruptMetadata",
                          format(<<"metadata file ", "{", ":", "?", "}", " is empty">>, <<p>>)),
       ctor |-> "none", fmt |-> <<>>, args |-> <<>>] : p \in Paths } \cup
    { [arm |-> "fmt", kind |-> ErrorKind("none", <<>>), ctor |-> c, fmt |-> f, args |-> <<>>] :
        c \in StringCtors, f \in { FmtPlain, FmtEscaped } } \cup
    { [arm |-> "fmt_args", kind |-> ErrorKind("none", <<>>), ctor |-> c, fmt |-> f, args |-> <<p>>] :
        c \in { "CorruptMetadata" }, f \in { FmtDisplay, FmtDebug }, p \in Paths }

bail_no_return(w, form, a) ==
    LET kind == CASE a.arm = "kind"     -> a.kind
                  [] a.arm = "fmt"      -> ErrorKind(a.ctor, to_owned(a.fmt))
                  [] a.arm = "fmt_args" -> ErrorKind(a.ctor, format(a.fmt, a.args))
        r == Error_from_kind(w, form, kind)
    IN [w |-> [r.w EXCEPT !.res = Err(r.id)], returned |-> FALSE]
\* ($e) => return Err($e.into());
\* ($kind, $fmt) => return Err($kind(($fmt).to_owned()).into());
\* ($kind, $fmt, $($arg)+) => return Err($kind(format!($fmt, $($arg)+)).into());
bail(w, form, a) ==
    LET kind == CASE a.arm = "kind"     -> a.kind
                  [] a.arm = "fmt"      -> ErrorKind(a.ctor, to_owned(a.fmt))
                  [] a.arm = "fmt_args" -> ErrorKind(a.ctor, format(a.fmt, a.args))
        r == Error_from_kind(w, form, kind)
    IN [w |-> [r.w EXCEPT !.res = Err(r.id)], returned |-> TRUE]

\* one evaluation of $cond, an expression with a side effect
EvalCond(w) == [w EXCEPT !.evals = @ + 1]

ensure_twice(w, form, cond, a) ==
    LET w1 == EvalCond(EvalCond(w))
    IN IF ~cond THEN bail(w1, form, a) ELSE [w |-> w1, returned |-> FALSE]
\* if !($cond) { $crate::bail!(...); }
ensure(w, form, cond, a) ==
    LET w1 == EvalCond(w)
    IN IF ~cond THEN bail(w1, form, a) ELSE [w |-> w1, returned |-> FALSE]

\* ------------------------------------------------------------- the program
NoCallback == [kind |-> ErrorKind("none", <<>>), touch |-> FALSE, msg |-> <<>>]
NoArgs == [arm |-> "none", kind |-> ErrorKind("none", <<>>), ctor |-> "none",
           fmt |-> <<>>, args |-> <<>>]
Last(op, method, cb, cond, a) ==
    [op |-> op, method |-> method, cb |-> cb, cond |-> cond, a |-> a, u |-> u, b |-> b]

Holding == pc \in { "have", "returned" }

Init ==
    /\ u = World0
    /\ b = World0
    /\ pc = "start"
    /\ last = [op |-> "init", method |-> "none", cb |-> NoCallback, cond |-> TRUE,
               a |-> NoArgs, u |-> World0, b |-> World0]
    /\ orig = None
    /\ applied = <<>>
    /\ shown = <<>>

\* a fallible operation of the platform (File::open) yields Ok(v) or Err(e)
Produce(ok, v, msg) ==
    /\ pc = "start"
    /\ IF ok
       THEN /\ u' = [u EXCEPT !.res = Ok(v)]
            /\ b' = [b EXCEPT !.res = Ok(v)]
            /\ orig' = None
       ELSE /\ u' = [Raw(u, msg).w EXCEPT !.res = Err(Raw(u, msg).id)]
            /\ b' = [Raw(b, msg).w EXCEPT !.res = Err(Raw(b, msg).id)]
            /\ orig' = Raw(u, msg).id
    /\ pc' = "have"
    /\ last' = Last("produce", "none", NoCallback, TRUE, NoArgs)
    /\ applied' = <<>>
    /\ shown' = <<>>

\* Err(Error::from(kind))
FromKind(kind) ==
    /\ pc = "start"
    /\ u' = [UnboxedError_from_kind(u, kind).w EXCEPT !.res = Err(UnboxedError_from_kind(u, kind).id)]
    /\ b' = [BoxedError_from_kind(b, kind).w EXCEPT !.res = Err(BoxedError_from_kind(b, kind).id)]
    /\ pc' = "have"
    /\ last' = Last("from_kind", "none", [NoCallback EXCEPT !.kind = kind], TRUE, NoArgs)
    /\ orig' = UnboxedError_from_kind(u, kind).id
    /\ applied' = <<>>
    /\ shown' = <<>>

\* Err(e.context(kind).into()) for the failure e in hand
FromCauseAndKind(kind) ==
    /\ Holding
    /\ ~u.res.ok
    /\ Len(applied) < MaxChain
    /\ LET ru == UnboxedError_from_context(u, Fail_context(u.res.err, kind))
           rb == BoxedError_from_context(b, Fail_context(b.res.err, kind))
       IN /\ u' = [ru.w EXCEPT !.res = Err(ru.id)]
          /\ b' = [rb.w EXCEPT !.res = Err(rb.id)]
    /\ last' = Last("from_cause_and_kind", "none", [NoCallback EXCEPT !.kind = kind], TRUE, NoArgs)
    /\ applied' = Append(applied, kind)
    /\ shown' = <<>>
    /\ UNCHANGED <<pc, orig>>

\* result.chain_err(|| kind)  or  result.chain_inspect_err(|e| ...)
ResultExtCall(method, cb) ==
    /\ Holding
    /\ Len(applied) < MaxChain
    /\ method = "chain_err" => ~cb.touch
    /\ IF method = "chain_err"
       THEN /\ u' = chain_err(u, "unboxed", [kind |-> cb.kind])
            /\ b' = chain_err(b, "boxed", [kind |-> cb.kind])
       ELSE /\ u' = chain_inspect_err(u, "unboxed", cb)
            /\ b' = chain_inspect_err(b, "boxed", cb)
    /\ last' = Last("result_ext", method, cb, TRUE, NoArgs)
    /\ applied' = IF u.res.ok THEN applied ELSE Append(applied, cb.kind)
    /\ shown' = <<>>
    /\ UNCHANGED <<pc, orig>>

\* ensure!(cond, args...) as the first statement of a function
Ensure(cond, a) ==
    /\ pc = "start"
    /\ LET ru == ensure(u, "unboxed", cond, a)
           rb == ensure(b, "boxed", cond, a)
       IN /\ u' = ru.w
          /\ b' = rb.w
          /\ pc' = IF ru.returned THEN "returned" ELSE "past_ensure"
          /\ orig' = IF ru.returned THEN ru.w.res.err ELSE None
    /\ last' = Last("ensure", "none", NoCallback, cond, a)
    /\ applied' = <<>>
    /\ shown' = <<>>

\* the statement after ensure!
Continue ==
    /\ pc = "past_ensure"
    /\ pc' = "continued"
    /\ last' = Last("continue", "none", NoCallback, TRUE, NoArgs)
    /\ UNCHANGED <<u, b, orig, applied, shown>>

\* bail!(args...)
Bail(a) ==
    /\ pc \in { "start", "continued" }
    /\ LET ru == bail(u, "unboxed", a)
           rb == bail(b, "boxed", a)
       IN /\ u' = ru.w
          /\ b' = rb.w
          /\ pc' = IF ru.returned THEN "returned" ELSE "continued"
          /\ orig' = ru.w.res.err
    /\ last' = Last("bail", "none", NoCallback, TRUE, a)
    /\ applied' = <<>>
    /\ shown' = <<>>

\* format!("{}", error) on the failure in hand
Display ==
    /\ Holding
    /\ ~u.res.ok
    /\ Len(shown) < MaxDisplays
    /\ shown' = Append(shown, [u |-> Fail_fmt(u, u.res.err), b |-> Fail_fmt(b, b.res.err)])
    /\ last' = Last("display", "none", NoCallback, TRUE, NoArgs)
    /\ UNCHANGED <<u, b, pc, orig, applied>>

Next ==
    \/ \E ok \in BOOLEAN, v \in Values, msg \in RawMsgs : Produce(ok, v, msg)
    \/ \E kind \in ChainKinds : FromKind(kind)
    \/ \E kind \in ChainKinds : FromCauseAndKind(kind)
    \/ \E method \in ResultExt, cb \in Callbacks : ResultExtCall(method, cb)
    \/ \E cond \in BOOLEAN, a \in MacroArgs : Ensure(cond, a)
    \/ Continue
    \/ \E a \in MacroArgs : Bail(a)
    \/ Display

Spec == Init /\ [][Next]_vars

\* ================================================================ claims
\* the successive causes of failure `id`, following cause() at most `fuel` times
RECURSIVE CauseWalk(_, _, _)
CauseWalk(w, id, fuel) ==
    IF fuel = 0 THEN <<>>
    ELSE LET c == Fail_cause(w, id)
         IN IF c = None THEN <<>> ELSE <<c>> \o CauseWalk(w, c, fuel - 1)

Chain(w) == CauseWalk(w, w.res.err, Len(w.fails) + 1)
NewId(pre) == Len(pre.fails) + 1
IsChaining == last.op = "result_ext" /\ ~last.u.res.ok

\* ---- C1
ChainedIn(w, pre) ==
    /\ ~w.res.ok
    /\ w.res.err = NewId(pre)
    /\ Error_kind(w, w.res.err) = last.cb.kind
    /\ Fail_cause(w, w.res.err) # None
    /\ Fail_cause(w, w.res.err) = pre.res.err
    /\ w.calls = pre.calls + 1

CauseAsLeft(w, pre) ==
    LET e == pre.res.err
    IN w.fails[e] = IF last.method = "chain_inspect_err" /\ last.cb.touch /\ pre.fails[e].type = "raw"
                    THEN [pre.fails[e] EXCEPT !.msg = last.cb.msg]
                    ELSE pre.fails[e]

C2_SuccessUntouched ==
    (last.op = "result_ext" /\ last.u.res.ok) =>
        /\ u.res = last.u.res /\ u.calls = last.u.calls /\ u.fails = last.u.fails
        /\ b.res = last.b.res /\ b.calls = last.b.calls /\ b.fails = last.b.fails
        /\ b.boxes = last.b.boxes

C2_Witness ==
    /\ last.op = "result_ext" /\ last.u.res.ok /\ last.method = "chain_inspect_err"
    /\ u.res.ok /\ u.res.val = "v2"

\* ---- C3
ChainOrderIn(w) ==
    LET n == Len(applied)
        walk == Chain(w)
        node(i) == IF i = 1 THEN w.res.err ELSE walk[i - 1]
    IN /\ Len(walk) = n
       /\ IF n = 0 THEN w.res.err = orig ELSE walk[n] = orig
       /\ \A i \in 1..n : Error_kind(w, node(i)) = applied[n - i + 1]

\* C3: after chaining N times over one original failure, following cause()
\* from the outermost Error takes exactly N steps, the N-th reaching the
\* original failure, and the Errors on the way carry the kinds in the
\* reverse of the order of application.
C3_ChainDepthAndOrder ==
    (~u.res.ok /\ orig # None) => ChainOrderIn(u) /\ ChainOrderIn(b)

C3_Witness ==
    /\ ~u.res.ok /\ orig # None
    /\ Len(applied) = MaxChain
    /\ applied[1] # applied[2]
    /\ u.fails[orig].type = "raw"

\* ---- C4
AcyclicIn(w) ==
    \A id \in 1..Len(w.fails) :
        /\ Fail_cause(w, id) \in 0..Len(w.fails)
        /\ LET walk == CauseWalk(w, id, Len(w.fails) + 1)
           IN /\ Len(walk) < Len(w.fails)
              /\ \A i \in 1..Len(walk) : walk[i] # id

\* C4: every failure has at most one direct cause, following cause() from
\* any failure reaches an absent cause in finitely many steps, and no
\* failure is its own direct or transitive cause.
C4_FiniteAcyclic == AcyclicIn(u) /\ AcyclicIn(b)

C4_Witness == ~u.res.ok /\ Len(Chain(u)) >= 2 /\ Len(Chain(b)) >= 2

\* ---- C5 / C6
\* the kind the claims state: the constructor applied to the formatted string
StatedKind(a) ==
    IF a.arm = "kind" THEN a.kind ELSE ErrorKind(a.ctor, format(a.fmt, a.args))

\* the kind with the format string taken verbatim when there are no
\* format arguments
VerbatimKind(a) ==
    CASE a.arm = "kind"     -> a.kind
      [] a.arm = "fmt"      -> ErrorKind(a.ctor, a.fmt)
      [] a.arm = "fmt_args" -> ErrorKind(a.ctor, format(a.fmt, a.args))

FreshErrorIn(w, pre, kind) ==
    /\ ~w.res.ok
    /\ w.res.err = NewId(pre)
    /\ Len(w.fails) = Len(pre.fails) + 1
    /\ Error_kind(w, w.res.err) = kind
    /\ Fail_cause(w, w.res.err) = None

EnsuredIn(w, pre, form) ==
    /\ w.evals = pre.evals + 1
    /\ last.cond => w.fails = pre.fails /\ w.boxes = pre.boxes /\ w.res = pre.res
    /\ ~last.cond => w = bail([pre EXCEPT !.evals = @ + 1], form, last.a).w

\* C5 as stated: the condition is evaluated once; true: no Error, execution
\* continues; false: return with the failure bail! returns, whose kind is
\* the given kind or the constructor applied to the formatted string.
C5_Original ==
    last.op = "ensure" =>
        /\ EnsuredIn(u, last.u, "unboxed") /\ EnsuredIn(b, last.b, "boxed")
        /\ pc = IF last.cond THEN "past_ensure" ELSE "returned"
        /\ ~last.cond => /\ FreshErrorIn(u, last.u, StatedKind(last.a))
                         /\ FreshErrorIn(b, last.b, StatedKind(last.a))

\* C5 amended: as stated, except that with a format string and no format
\* arguments the kind is the constructor applied to the string verbatim.
C5_Amended ==
    last.op = "ensure" =>
        /\ EnsuredIn(u, last.u, "unboxed") /\ EnsuredIn(b, last.b, "boxed")
        /\ pc = IF last.cond THEN "past_ensure" ELSE "returned"
        /\ ~last.cond => /\ FreshErrorIn(u, last.u, VerbatimKind(last.a))
                         /\ FreshErrorIn(b, last.b, VerbatimKind(last.a))

C5_Witness ==
    /\ last.op = "ensure" /\ ~last.cond /\ pc = "returned"
    /\ last.a.arm = "fmt" /\ last.a.fmt = FmtEscaped
    /\ u.evals = 1

\* C6 as stated: bail! returns a failure from the function; the Error has
\* the given kind, or the constructor applied to the formatted string, and
\* no cause.
C6_Original ==
    last.op = "bail" =>
        /\ pc = "returned"
        /\ FreshErrorIn(u, last.u, StatedKind(last.a))
        /\ FreshErrorIn(b, last.b, StatedKind(last.a))

\* C6 amended: as stated, except that bail!(kind_ctor, fmt) without format
\* arguments applies the constructor to the string verbatim.
C6_Amended ==
    last.op = "bail" =>
        /\ pc = "returned"
        /\ FreshErrorIn(u, last.u, VerbatimKind(last.a))
        /\ FreshErrorIn(b, last.b, VerbatimKind(last.a))

C6_Witness ==
    /\ last.op = "bail" /\ pc = "returned"
    /\ last.a.arm = "fmt" /\ last.a.fmt = FmtEscaped
    /\ Error_kind(b, b.res.err).payload = FmtEscaped

\* ---- C7
WithCauseIn(w, pre) ==
    /\ ~w.res.ok
    /\ w.res.err = NewId(pre)
    /\ Error_kind(w, w.res.err) = last.cb.kind
    /\ Fail_cause(w, w.res.err) # None
    /\ Fail_cause(w, w.res.err) = pre.res.err
    /\ w.fails[pre.res.err] = pre.fails[pre.res.err]

\* C7: an Error built from a kind alone has that kind and no cause; an
\* Error built from a cause and a kind has that kind and the given cause,
\* with the cause's content as it was handed in.
C7_RoundTrip ==
    /\ last.op = "from_kind" =>
        /\ FreshErrorIn(u, last.u, last.cb.kind)
        /\ FreshErrorIn(b, last.b, last.cb.kind)
    /\ last.op = "from_cause_and_kind" =>
        /\ WithCauseIn(u, last.u)
        /\ WithCauseIn(b, last.b)

C7_Witness ==
    /\ last.op = "from_cause_and_kind"
    /\ Len(applied) >= 2
    /\ Error_kind(u, u.res.err) # Error_kind(u, Fail_cause(u, u.res.err))

\* ---- C8
\* C8 as stated: a Result in hand offers a replace_err combinator.
C8_Original == Holding => "replace_err" \in ResultExt

\* C8 amended: ResultExt has chain_err and chain_inspect_err only.  The one
\* that hands the original failure to the callback is chain_inspect_err, by
\* mutable reference; when the callback leaves the failure alone it behaves
\* as chain_err does, and both propagate a success unchanged.
C8_Amended ==
    last.op = "result_ext" =>
        /\ last.method \in { "chain_err", "chain_inspect_err" }
        /\ ~last.cb.touch =>
            /\ u = chain_err(last.u, "unboxed", [kind |-> last.cb.kind])
            /\ b = chain_err(last.b, "boxed", [kind |-> last.cb.kind])
        /\ ~last.u.res.ok => /\ Fail_cause(u, u.res.err) = last.u.res.err
                             /\ Fail_cause(b, b.res.err) = last.b.res.err
        /\ last.u.res.ok => u.res = last.u.res /\ b.res = last.b.res

C8_Witness ==
    /\ last.op = "result_ext" /\ last.method = "chain_inspect_err"
    /\ ~last.cb.touch /\ ~last.u.res.ok
    /\ Len(u.fails) = Len(last.u.fails) + 1

\* ---- C9
\* C9: after the same constructions and chaining steps, UnboxedError and
\* BoxedError agree on kind(), on cause() at every depth and on the
\* displayed message.
C9_SameReads ==
    /\ Len(u.fails) = Len(b.fails)
    /\ u.res = b.res
    /\ \A id \in 1..Len(u.fails) :
        /\ (u.fails[id].type = "raw") <=> (b.fails[id].type = "raw")
        /\ Fail_cause(u, id) = Fail_cause(b, id)
        /\ Fail_fmt(u, id) = Fail_fmt(b, id)
        /\ u.fails[id].type = "unboxed" =>
            /\ b.fails[id].type = "boxed"
            /\ UnboxedError_kind(u, id) = BoxedError_kind(b, id)
    /\ \A i \in 1..Len(shown) : shown[i].u = shown[i].b

C9_Witness ==
    /\ ~u.res.ok /\ Len(Chain(u)) >= 2 /\ Len(shown) >= 1
    /\ u.fails[u.res.err].type = "unboxed" /\ b.fails[b.res.err].type = "boxed"

\* ---- C10
\* C10: the displayed text of an Error is the message of its own kind and
\* nothing else, whatever the depth of its chain; every display of the same
\* Error gives that text, and a display leaves the Error as it was.
C10_DisplayOutermostOnly ==
    (~u.res.ok /\ u.fails[u.res.err].type # "raw") =>
        /\ \A i \in 1..Len(shown) :
            /\ shown[i].u = ErrorKind_fmt(UnboxedError_kind(u, u.res.err))
            /\ shown[i].b = ErrorKind_fmt(BoxedError_kind(b, b.res.err))
        /\ last.op = "display" => u = last.u /\ b = last.b

C10_Witness ==
    /\ ~u.res.ok /\ Len(Chain(u)) >= 2
    /\ Len(shown) = 2 /\ shown[1] = shown[2]
    /\ last.op = "display"

====
